---------------------------- MODULE Spec2Model ----------------------------
(***************************************************************************)
(* Model of src/SM3_project5/SM2.py: the SM2 signature class (inv_mod,     *)
(* ec_add, ec_mult, generate_key_pair, sign, verify).                      *)
(*                                                                         *)
(* The 256-bit domain parameters of the source cannot be enumerated, so    *)
(* the model runs the same code over a small curve of the same shape:      *)
(* a prime field, A = P - 3, B # 0 (so (0,0), the source's encoding of the *)
(* point at infinity, is not a curve point), a group of prime order N with *)
(* cofactor 1 and N < P.  y^2 = x^3 + 8x + 10 over GF(11) has 7 points     *)
(* including the point at infinity; G = (8, 5) generates it.               *)
(*                                                                         *)
(* Python's None is modelled by the falsy value of the field's type (0 for *)
(* private_key, the empty tuple for public_key and for a missing           *)
(* signature): `not self.private_key` and `not self.public_key` are the    *)
(* only tests the source applies to them.                                  *)
(***************************************************************************)
EXTENDS Integers, Sequences, FiniteSets, TLC

VARIABLES private_key, public_key, generated, pc, message, e, draws,
          signature, outcome, iv, cv, vf

vars == <<private_key, public_key, generated, pc, message, e, draws,
          signature, outcome, iv, cv, vf>>

(* ---------------- domain parameters (SM2.py:13-19), scaled ------------- *)
P == 11
A == P - 3
B == 10
N == 7
Gx == 8
Gy == 5
G == <<Gx, Gy>>
O == <<0, 0>>

(* ---------------- bounds of the model ---------------------------------- *)
MaxDigest == 15
MaxDraws == 2
MaxA == 14
MaxP == 13
MaxK == 16

Messages == 0..MaxDigest
SigVals == -1..(N + 1)
Primes == {q \in 2..MaxP : \A i \in 2..(q - 1) : q % i # 0}

OnCurve(pt) == (pt[2] * pt[2]) % P = (pt[1] * pt[1] * pt[1] + A * pt[1] + B) % P
CurvePoints == {pt \in (0..(P - 1)) \X (0..(P - 1)) : OnCurve(pt)} \cup {O}

(* ---------------- inv_mod (SM2.py:21-35) ------------------------------- *)
inv_init(a, p) == [a |-> a, p |-> p, old_r |-> a, r |-> p, old_s |-> 1,
                   s |-> 0, pc |-> "loop", result |-> 0]

inv_step(st) ==
    LET quotient == st.old_r \div st.r
    IN  [st EXCEPT !.old_r = st.r, !.r = st.old_r - quotient * st.r,
                   !.old_s = st.s, !.s = st.old_s - quotient * st.s]

(* a slip: the result is not reduced into [0, p - 1] *)
inv_return_raw(st) == [st EXCEPT !.pc = "done", !.result = st.old_s]

inv_return(st) == [st EXCEPT !.pc = "done", !.result = st.old_s % st.p]

RECURSIVE inv_run(_)
inv_run(st) == IF st.r # 0 THEN inv_run(inv_step(st)) ELSE inv_return(st)

inv_mod(a, p) == inv_run(inv_init(a, p)).result

(* ---------------- _hash_message (SM2.py:37-45) ------------------------- *)
(* A message is identified with the integer value of its SM3 digest.       *)
_hash_message(m) == m % N

(* `if e == 0: e = 1` (SM2.py:112-113, 150-151) *)
coerce(h) == IF h = 0 THEN 1 ELSE h

(* ---------------- ec_add (SM2.py:47-68) -------------------------------- *)
(* a slip: the test for a point and its negation is missing *)
ec_add_noneg(p1, p2, p) ==
    IF p1 = O THEN p2
    ELSE IF p2 = O THEN p1
    ELSE LET lam == IF p1 = p2
                    THEN ((3 * p1[1] * p1[1] + A) * inv_mod(2 * p1[2], p)) % p
                    ELSE ((p2[2] - p1[2]) * inv_mod(p2[1] - p1[1], p)) % p
             x3 == (lam * lam - p1[1] - p2[1]) % p
             y3 == (lam * (p1[1] - x3) - p1[2]) % p
         IN  <<x3, y3>>

ec_add(p1, p2, p) ==
    IF p1 = O THEN p2
    ELSE IF p2 = O THEN p1
    ELSE IF p1[1] = p2[1] /\ p1[2] # p2[2] THEN O
    ELSE LET lam == IF p1 = p2
                    THEN ((3 * p1[1] * p1[1] + A) * inv_mod(2 * p1[2], p)) % p
                    ELSE ((p2[2] - p1[2]) * inv_mod(p2[1] - p1[1], p)) % p
             x3 == (lam * lam - p1[1] - p2[1]) % p
             y3 == (lam * (p1[1] - x3) - p1[2]) % p
         IN  <<x3, y3>>

(* ---------------- ec_mult (SM2.py:70-86) ------------------------------- *)
RECURSIVE ec_mult_loop(_, _, _, _)
ec_mult_loop(k, result, addend, p) ==
    IF k = 0 THEN result
    ELSE ec_mult_loop(k \div 2,
                      IF k % 2 = 1 THEN ec_add(result, addend, p) ELSE result,
                      ec_add(addend, addend, p), p)

(* a slip: the accumulator starts at the point instead of (0, 0) *)
ec_mult_from_point(k, point, p) == ec_mult_loop(k, point, point, p)

ec_mult(k, point, p) == ec_mult_loop(k, O, point, p)

(* ---------------- results of the calls ---------------------------------- *)
(* op: the method; kind: "pending" | "return" | "raise"; err: the exception *)
(* class; sig: the signature sign returned; ok: the boolean verify          *)
(* returned; steps: the statements verify executed, in order; draws: the    *)
(* nonces sign drew; signed: verify was given the message and signature of  *)
(* the last sign call.                                                      *)
NoOutcome == [op |-> "none", kind |-> "none", err |-> "", sig |-> <<>>,
              ok |-> FALSE, steps |-> <<>>, draws |-> 0, signed |-> FALSE]

NoInv == [a |-> 0, p |-> 0, old_r |-> 0, r |-> 0, old_s |-> 0, s |-> 0,
          pc |-> "idle", result |-> 0]

NoCurve == [p1 |-> O, p2 |-> O, p3 |-> O, pc |-> "idle", s12 |-> O, s21 |-> O,
            left |-> O, right |-> O, i |-> 0, acc |-> O, prod |-> O]

NoVerify == [m |-> 0, r |-> 0, s |-> 0, pc |-> "idle"]

(* ---------------- sign: one pass of the retry loop (SM2.py:115-132) ---- *)
(* `if r == 0 or r + k == SM2.N: continue` (SM2.py:124) *)
(* a slip: the r + k = n test is missing *)
sign_rejects_r_zero(r, k) == r = 0

sign_rejects_r(r, k) == r = 0 \/ r + k = N

(* SM2.py:128 *)
sign_s_plus(d, k, r) == (inv_mod(1 + d, N) * (k + r * d)) % N

sign_s(d, k, r) == (inv_mod(1 + d, N) * (k - r * d)) % N

sign_try(d, h, k) ==
    LET x1 == ec_mult(k, G, P)[1]
        r == (h + x1) % N
        s == sign_s(d, k, r)
    IN  IF sign_rejects_r(r, k)
        THEN [accepted |-> FALSE, sig |-> <<>>]
        ELSE IF s = 0
        THEN [accepted |-> FALSE, sig |-> <<>>]
        ELSE [accepted |-> TRUE, sig |-> <<r, s>>]

(* ---------------- verify (SM2.py:134-164) ------------------------------ *)
(* `1 <= r < SM2.N and 1 <= s < SM2.N` (SM2.py:145) *)
in_range_inclusive(r, s) == 1 <= r /\ r <= N /\ 1 <= s /\ s <= N

in_range(r, s) == 1 <= r /\ r < N /\ 1 <= s /\ s < N

(* `(e + x1) % SM2.N == r` (SM2.py:164) *)
accepts_nohash(h, x1, r) == x1 % N = r

accepts(h, x1, r) == (h + x1) % N = r

verify_result(Q, m, sig) ==
    IF Q = <<>>
    THEN [NoOutcome EXCEPT !.op = "verify", !.kind = "raise",
                           !.err = "ValueError", !.steps = <<"key">>]
    ELSE IF Len(sig) # 2
    THEN [NoOutcome EXCEPT !.op = "verify", !.kind = "raise",
                           !.err = "TypeError", !.steps = <<"key", "unpack">>]
    ELSE LET r == sig[1]
             s == sig[2]
             h == coerce(_hash_message(m))
             t == (r + s) % N
         IN  IF ~in_range(r, s)
             THEN [NoOutcome EXCEPT !.op = "verify", !.kind = "return",
                                    !.steps = <<"key", "unpack", "range">>]
             ELSE IF t = 0
             THEN [NoOutcome EXCEPT !.op = "verify", !.kind = "return",
                                    !.steps = <<"key", "unpack", "range",
                                                "hash", "t">>]
             ELSE LET sg == ec_mult(s, G, P)
                      tp == ec_mult(t, Q, P)
                      x1 == ec_add(sg, tp, P)[1]
                  IN  [NoOutcome EXCEPT !.op = "verify", !.kind = "return",
                                        !.ok = accepts(h, x1, r),
                                        !.steps = <<"key", "unpack", "range",
                                                    "hash", "t", "ec_mult",
                                                    "ec_mult", "ec_add",
                                                    "compare">>]

(* ======================= the SM2 object ================================= *)
(* generated: generate_key_pair has run on this object (history).           *)
(* signature, message: what the caller holds, as in SM2.py:177-178.         *)
Idle ==
    /\ pc = "idle"
    /\ message = 0
    /\ e = 0
    /\ draws = 0
    /\ signature = <<>>
    /\ outcome = NoOutcome

(* __init__ (SM2.py:88-90): both keys None; no call made yet.               *)
Init ==
    /\ private_key = 0
    /\ public_key = <<>>
    /\ generated = FALSE
    /\ Idle
    /\ iv = NoInv
    /\ cv = NoCurve
    /\ vf = NoVerify

(* generate_key_pair (SM2.py:92-99); d is random.randint(1, N - 1).         *)
generate_key_pair(d) ==
    /\ pc = "idle"
    /\ private_key' = d
    /\ public_key' = ec_mult(d, G, P)
    /\ generated' = TRUE
    /\ outcome' = [NoOutcome EXCEPT !.op = "generate_key_pair",
                                    !.kind = "return"]
    /\ UNCHANGED <<pc, message, e, draws>>

(* a slip: the key test of SM2.py:107-108 is missing *)
sign_call_unchecked(m) ==
    /\ pc = "idle"
    /\ pc' = "sign_loop"
    /\ message' = m
    /\ e' = coerce(_hash_message(m))
    /\ draws' = 0
    /\ signature' = <<>>
    /\ outcome' = [NoOutcome EXCEPT !.op = "sign", !.kind = "pending"]
    /\ UNCHANGED <<private_key, public_key, generated>>

(* sign, up to the loop (SM2.py:107-113): the key test, then the hash.      *)
(* `signature = sm2.sign(message)`: until the call returns the caller has   *)
(* no signature of this message; a raise leaves what it held.               *)
sign_call(m) ==
    /\ pc = "idle"
    /\ IF private_key = 0
       THEN /\ outcome' = [NoOutcome EXCEPT !.op = "sign", !.kind = "raise",
                                            !.err = "ValueError"]
            /\ UNCHANGED <<pc, message, e, draws, signature>>
       ELSE /\ pc' = "sign_loop"
            /\ message' = m
            /\ e' = coerce(_hash_message(m))
            /\ draws' = 0
            /\ signature' = <<>>
            /\ outcome' = [NoOutcome EXCEPT !.op = "sign", !.kind = "pending"]
    /\ UNCHANGED <<private_key, public_key, generated>>

(* a slip: the nonce is stored in the key field *)
sign_attempt_storek(k) ==
    /\ pc = "sign_loop"
    /\ draws' = IF draws < MaxDraws THEN draws + 1 ELSE draws
    /\ private_key' = k
    /\ LET t == sign_try(private_key, e, k)
       IN  IF t.accepted
           THEN /\ pc' = "idle"
                /\ signature' = t.sig
                /\ outcome' = [NoOutcome EXCEPT !.op = "sign",
                                                !.kind = "return",
                                                !.sig = t.sig,
                                                !.draws = draws']
           ELSE /\ outcome' = [outcome EXCEPT !.draws = draws']
                /\ UNCHANGED <<pc, signature>>
    /\ UNCHANGED <<public_key, generated, message, e>>

(* sign, one pass of `while True` (SM2.py:115-132); k is                    *)
(* random.randint(1, N - 1).  The count of draws saturates at MaxDraws.     *)
sign_attempt(k) ==
    /\ pc = "sign_loop"
    /\ draws' = IF draws < MaxDraws THEN draws + 1 ELSE draws
    /\ LET t == sign_try(private_key, e, k)
       IN  IF t.accepted
           THEN /\ pc' = "idle"
                /\ signature' = t.sig
                /\ outcome' = [NoOutcome EXCEPT !.op = "sign",
                                                !.kind = "return",
                                                !.sig = t.sig,
                                                !.draws = draws']
           ELSE /\ outcome' = [outcome EXCEPT !.draws = draws']
                /\ UNCHANGED <<pc, signature>>
    /\ UNCHANGED <<private_key, public_key, generated, message, e>>

(* verify (SM2.py:134-164) of message m and signature sig.                  *)
verify(m, sig) ==
    /\ pc = "idle"
    /\ outcome' = [verify_result(public_key, m, sig) EXCEPT
                      !.signed = (sig # <<>> /\ sig = signature /\ m = message)]
    /\ UNCHANGED <<private_key, public_key, generated, pc, message, e, draws,
                   signature>>

(* The caller (SM2.py:168-188): it generates a key pair, dropping any       *)
(* signature made with the old one, signs messages, and hands verify the    *)
(* signature it holds together with the signed or another message.          *)
Next ==
    \/ \E d \in 1..(N - 1) :
          generate_key_pair(d) /\ signature' = <<>> /\ UNCHANGED <<iv, cv, vf>>
    \/ \E m \in Messages : sign_call(m) /\ UNCHANGED <<iv, cv, vf>>
    \/ \E k \in 1..(N - 1) : sign_attempt(k) /\ UNCHANGED <<iv, cv, vf>>
    \/ \E m \in Messages : verify(m, signature) /\ UNCHANGED <<iv, cv, vf>>

Spec == Init /\ [][Next]_vars

(* ======================= verify on arbitrary input ====================== *)
(* The object either fresh or after generate_key_pair; one call of verify   *)
(* with a message and any pair (r, s), in range or not.                     *)
KeyStates == {<<0, <<>>, FALSE>>} \cup
             {<<d, ec_mult(d, G, P), TRUE>> : d \in 1..(N - 1)}

VerifyInit ==
    /\ \E ks \in KeyStates :
          /\ private_key = ks[1]
          /\ public_key = ks[2]
          /\ generated = ks[3]
    /\ Idle
    /\ iv = NoInv
    /\ cv = NoCurve
    /\ vf \in [m : Messages, r : SigVals, s : SigVals, pc : {"call"}]

verify_call ==
    /\ vf.pc = "call"
    /\ verify(vf.m, <<vf.r, vf.s>>)
    /\ vf' = [vf EXCEPT !.pc = "done"]
    /\ UNCHANGED <<iv, cv>>

VerifyNext == verify_call

VerifySpec == VerifyInit /\ [][VerifyNext]_vars

(* ======================= inv_mod, statement by statement ================ *)
InvInit ==
    /\ private_key = 0
    /\ public_key = <<>>
    /\ generated = FALSE
    /\ Idle
    /\ iv \in {inv_init(a, p) : a \in (-MaxA)..MaxA, p \in Primes}
    /\ cv = NoCurve
    /\ vf = NoVerify

(* one pass of `while r != 0` (SM2.py:31-34) *)
inv_iterate ==
    /\ iv.pc = "loop"
    /\ iv.r # 0
    /\ iv' = inv_step(iv)
    /\ UNCHANGED <<private_key, public_key, generated, pc, message, e, draws,
                   signature, outcome, cv, vf>>

(* `return old_s % p` (SM2.py:35) *)
inv_finish ==
    /\ iv.pc = "loop"
    /\ iv.r = 0
    /\ iv' = inv_return(iv)
    /\ UNCHANGED <<private_key, public_key, generated, pc, message, e, draws,
                   signature, outcome, cv, vf>>

InvNext == inv_iterate \/ inv_finish

(* the interpreter runs the loop on: a pass that can be taken is taken *)
InvSpec == InvInit /\ [][InvNext]_vars /\ WF_vars(InvNext)

(* ======================= the group law ================================== *)
AddInit ==
    /\ private_key = 0
    /\ public_key = <<>>
    /\ generated = FALSE
    /\ Idle
    /\ iv = NoInv
    /\ cv \in {[NoCurve EXCEPT !.p1 = a, !.p2 = b, !.p3 = c, !.pc = "call"] :
                  a \in CurvePoints, b \in CurvePoints, c \in CurvePoints}
    /\ vf = NoVerify

(* ec_add on the three points, in both orders and both groupings *)
ec_add_call ==
    /\ cv.pc = "call"
    /\ cv' = [cv EXCEPT !.pc = "added",
                        !.s12 = ec_add(cv.p1, cv.p2, P),
                        !.s21 = ec_add(cv.p2, cv.p1, P),
                        !.left = ec_add(ec_add(cv.p1, cv.p2, P), cv.p3, P),
                        !.right = ec_add(cv.p1, ec_add(cv.p2, cv.p3, P), P)]
    /\ UNCHANGED <<private_key, public_key, generated, pc, message, e, draws,
                   signature, outcome, iv, vf>>

AddNext == ec_add_call

AddSpec == AddInit /\ [][AddNext]_vars

MultInit ==
    /\ private_key = 0
    /\ public_key = <<>>
    /\ generated = FALSE
    /\ Idle
    /\ iv = NoInv
    /\ cv \in {[NoCurve EXCEPT !.p1 = a, !.pc = "mult",
                               !.prod = ec_mult(0, a, P)] : a \in CurvePoints}
    /\ vf = NoVerify

(* one more ec_add of p1 onto acc, beside ec_mult with the next scalar *)
ec_mult_call ==
    /\ cv.pc = "mult"
    /\ cv.i < MaxK
    /\ cv' = [cv EXCEPT !.i = cv.i + 1,
                        !.acc = ec_add(cv.acc, cv.p1, P),
                        !.prod = ec_mult(cv.i + 1, cv.p1, P)]
    /\ UNCHANGED <<private_key, public_key, generated, pc, message, e, draws,
                   signature, outcome, iv, vf>>

MultNext == ec_mult_call

MultSpec == MultInit /\ [][MultNext]_vars

(* ======================= properties ===================================== *)
InRange(x) == 1 <= x /\ x <= N - 1

Divides(q, x) == x % q = 0
GCD(x, y) == CHOOSE g \in 1..(MaxA + MaxP + 2) :
                /\ Divides(g, x) /\ Divides(g, y)
                /\ \A h \in 1..(MaxA + MaxP + 2) :
                      Divides(h, x) /\ Divides(h, y) => h <= g

(* C1: whenever sign has returned (r, s) for a message, verify of the same  *)
(* message with that (r, s) under the key pair that signed returns true.    *)
C1_RoundTrip ==
    (outcome.op = "verify" /\ outcome.signed)
        => (outcome.kind = "return" /\ outcome.ok)

C1_Witness ==
    /\ outcome.op = "verify"
    /\ outcome.signed
    /\ outcome.ok
    /\ InRange(private_key)
    /\ _hash_message(message) = 0

(* C2: verify returns false, and does not raise, for every (r, s) with r or *)
(* s outside [1, n-1], for every message and every initialized public key,  *)
(* and ends at the range test: no hash, no curve operation is reached.      *)
C2_RangeReject ==
    (vf.pc = "done" /\ public_key # <<>> /\ ~(InRange(vf.r) /\ InRange(vf.s)))
        => /\ outcome.op = "verify"
           /\ outcome.kind = "return"
           /\ outcome.ok = FALSE
           /\ outcome.steps = <<"key", "unpack", "range">>

C2_Witness ==
    /\ vf.pc = "done"
    /\ public_key # <<>>
    /\ vf.r = N
    /\ InRange(vf.s)
    /\ outcome.kind = "return"
    /\ outcome.ok = FALSE

(* C3: for every private key d in [1, n-1] and every message, a sign call   *)
(* that is in its retry loop has a nonce k in [1, n-1] that passes the      *)
(* r = 0, r + k = n and s = 0 tests (so a fair random source ends the loop).*)
C3_SignCanReturn ==
    pc = "sign_loop"
        => \E k \in 1..(N - 1) : sign_try(private_key, e, k).accepted

(* C4 as stated: if verify accepts (r, s) for m under Q, it rejects the     *)
(* same (r, s) under Q for every m' whose digest mod n differs from m's.    *)
C4_TamperDigest ==
    (vf.pc = "done" /\ outcome.kind = "return" /\ outcome.ok)
        => \A m2 \in Messages :
              m2 % N # vf.m % N
                 => ~verify_result(public_key, m2, <<vf.r, vf.s>>).ok

(* C4 amended: if verify accepts (r, s) for m under Q, it rejects the same  *)
(* (r, s) under Q for every m' whose hash value e (the digest mod n, with   *)
(* 0 replaced by 1) differs from that of m.                                 *)
C4_TamperHash ==
    (vf.pc = "done" /\ outcome.kind = "return" /\ outcome.ok)
        => \A m2 \in Messages :
              (IF m2 % N = 0 THEN 1 ELSE m2 % N)
                    # (IF vf.m % N = 0 THEN 1 ELSE vf.m % N)
                 => ~verify_result(public_key, m2, <<vf.r, vf.s>>).ok

C4_Witness ==
    /\ vf.pc = "done"
    /\ outcome.kind = "return"
    /\ outcome.ok
    /\ vf.m % N = 3
    /\ \E m2 \in Messages : m2 % N # 3

(* C5: on an object on which generate_key_pair has never run, sign raises   *)
(* the key error before any nonce is drawn and returns no signature, and    *)
(* verify raises the key error instead of returning; once generate_key_pair *)
(* has run, neither raises it.                                              *)
C5_KeyNotInitialized ==
    /\ (outcome.op = "sign" /\ ~generated)
          => /\ outcome.kind = "raise"
             /\ outcome.err = "ValueError"
             /\ outcome.draws = 0
             /\ draws = 0
             /\ outcome.sig = <<>>
             /\ signature = <<>>
             /\ pc = "idle"
    /\ (outcome.op = "verify" /\ ~generated)
          => /\ outcome.kind = "raise"
             /\ outcome.err = "ValueError"
             /\ outcome.steps = <<"key">>
    /\ (outcome.op \in {"sign", "verify"} /\ generated)
          => ~(outcome.kind = "raise" /\ outcome.err = "ValueError")

C5_Witness ==
    /\ ~generated
    /\ outcome.op = "sign"
    /\ outcome.kind = "raise"

(* C6: for prime p and a coprime to p (negative a and a >= p included) the  *)
(* loop of inv_mod ends, and the result is in [0, p-1] with                 *)
(* (a * result) mod p = 1.                                                  *)
C6_InvModCorrect ==
    /\ [](GCD(iv.a, iv.p) = 1 /\ iv.pc = "done"
             => /\ iv.result \in 0..(iv.p - 1)
                /\ (iv.a * iv.result) % iv.p = 1)
    /\ (GCD(iv.a, iv.p) = 1 /\ iv.pc = "loop") ~> (iv.pc = "done")

C6_Witness ==
    /\ iv.pc = "done"
    /\ iv.a < 0
    /\ iv.p = N
    /\ GCD(iv.a, iv.p) = 1
    /\ iv.result > 1

(* C7: inv_mod returns an integer only when gcd(a, p) = 1; with             *)
(* gcd(a, p) # 1 the call fails instead of reaching its return.             *)
C7_InvModRejects == iv.pc = "done" => GCD(iv.a, iv.p) = 1

(* C8: ec_mult(k, P) is the k-fold repeated ec_add of P starting from O,    *)
(* for every k >= 0 and every curve point P, O included; ec_mult(0, P) = O, *)
(* ec_mult(1, P) = P = ec_add(O, P), ec_mult(2, P) = ec_add(P, P).          *)
C8_MultIsRepeatedAdd ==
    cv.pc = "mult"
        => /\ cv.prod = cv.acc
           /\ (cv.i = 0 => cv.prod = O)
           /\ (cv.i = 1 => cv.prod = cv.p1 /\ cv.prod = ec_add(O, cv.p1, P))
           /\ (cv.i = 2 => cv.prod = ec_add(cv.p1, cv.p1, P))

C8_Witness ==
    /\ cv.pc = "mult"
    /\ cv.i > N
    /\ cv.p1 # O
    /\ cv.prod # O
    /\ cv.prod # cv.p1

(* C9: ec_add is commutative and associative on the points of the curve     *)
(* together with the point at infinity.                                     *)
C9_GroupLaw ==
    cv.pc = "added" => (cv.s12 = cv.s21 /\ cv.left = cv.right)

C9_Witness ==
    /\ cv.pc = "added"
    /\ cv.p1 # O
    /\ cv.p1 = cv.p2
    /\ cv.p3[1] = cv.s12[1]
    /\ cv.p3 # cv.s12
    /\ cv.left = O

(* C10: private_key and public_key change only in generate_key_pair: every  *)
(* step of sign (entering, retrying, returning, raising) and every verify   *)
(* leaves both fields as they were.                                         *)
C10_KeysFramed ==
    [][(private_key' # private_key \/ public_key' # public_key)
          => outcome'.op = "generate_key_pair"]_vars

C10_Witness ==
    /\ outcome.op = "sign"
    /\ outcome.kind = "return"
    /\ outcome.draws >= 2
    /\ InRange(private_key)

(* C11: every signature (r, s) that sign returns has 1 <= r <= n-1,         *)
(* 1 <= s <= n-1 and (r + s) mod n # 0, so verify given a signature of sign *)
(* passes its range test and its t = 0 test and reaches the comparison;     *)
(* among the nonces of a sign call with r # 0 and s # 0, r + k = n holds    *)
(* exactly when t = (r + s) mod n = 0.                                      *)
C11_SignatureWellFormed ==
    /\ (outcome.op = "sign" /\ outcome.kind = "return")
          => /\ Len(outcome.sig) = 2
             /\ signature = outcome.sig
             /\ InRange(outcome.sig[1])
             /\ InRange(outcome.sig[2])
             /\ (outcome.sig[1] + outcome.sig[2]) % N # 0
    /\ (outcome.op = "verify" /\ outcome.kind = "return")
          => /\ Len(outcome.steps) = 9
             /\ outcome.steps[9] = "compare"
    /\ pc = "sign_loop"
          => \A k \in 1..(N - 1) :
                LET r == (e + ec_mult(k, G, P)[1]) % N
                    s == sign_s(private_key, k, r)
                IN  (r # 0 /\ s # 0) => ((r + k = N) <=> ((r + s) % N = 0))

C11_Witness ==
    /\ outcome.op = "sign"
    /\ outcome.kind = "return"
    /\ outcome.draws >= 2
    /\ \E k \in 1..(N - 1) :
          LET r == (e + ec_mult(k, G, P)[1]) % N
          IN  r # 0 /\ r + k = N /\ sign_s(private_key, k, r) # 0

=============================================================================
